---- MODULE Spec2Model ----
(***************************************************************************)
(* mysqldump_reformat.py: process_file reads every line of the input file, *)
(* passes empty and commented lines through, feeds the others to           *)
(* process_line, which scans the line character by character and splits it *)
(* before every top-level opening bracket that is not in quotes, and then  *)
(* writes the output file.  main asks the user for the two file names and  *)
(* for a confirmation before an existing file is overwritten.              *)
(*                                                                         *)
(* A text is a sequence of one-character strings.  Indices i and start are *)
(* 0-based as in the Python source; Slice(s, a, b) is Python's s[a:b].     *)
(***************************************************************************)
EXTENDS Integers, Sequences, FiniteSets, TLC

\* ------------------------------------------------------------------ bounds
\* Longest input file (in characters) drawn from Alphabet.
MaxFileLen == 5

\* Longest line (in characters) process_line is called with directly.
MaxLineLen == 4

\* Longest line of a second direct call of process_line.
MaxNextLen == 1

\* Most answers the user types at the prompts of one run.
MaxPrompts == 5

\* ------------------------------------------------------------------ texts
BSL == "\\"
QUOTE == "'"
OPEN == "("
CLOSE == ")"
NL == "\n"
DASH == "-"

\* The characters with a role in the code, and one with none.
Alphabet == {BSL, QUOTE, OPEN, CLOSE, NL, DASH, "a"}

\* a'(b'c(d)
LineQuotedOpen == <<"a", QUOTE, OPEN, "b", QUOTE, "c", OPEN, "d", CLOSE>>

\* 'abc  /  def'(x)
LineAbc == <<QUOTE, "a", "b", "c", NL>>
LineDef == <<"d", "e", "f", QUOTE, OPEN, "x", CLOSE>>

\* 'a  /  --'(  /  b'(c)
LineNote == <<DASH, DASH, QUOTE, OPEN, NL>>
FileNote == <<QUOTE, "a", NL>> \o LineNote \o <<"b", QUOTE, OPEN, "c", CLOSE, NL>>

\* The input files: every text of at most MaxFileLen characters of Alphabet,
\* and the longer texts above.
Files ==
    UNION {[1..n -> Alphabet] : n \in 0..MaxFileLen}
        \cup {LineQuotedOpen, LineAbc \o LineDef, FileNote}

\* Python's s[a:b] for 0 <= a.
Slice(s, a, b) == SubSeq(s, a + 1, IF b < Len(s) THEN b ELSE Len(s))

\* Python's s[a:].
SliceFrom(s, a) == SubSeq(s, a + 1, Len(s))

RECURSIVE Flatten(_)
Flatten(ss) == IF ss = <<>> THEN <<>> ELSE Head(ss) \o Flatten(Tail(ss))

\* Length of the first line of the non-empty text s: up to and including its
\* first newline, or all of s when it holds none.
RECURSIVE FirstLineLen(_)
FirstLineLen(s) ==
    IF Len(s) = 1 \/ Head(s) = NL THEN 1 ELSE 1 + FirstLineLen(Tail(s))

\* f.readlines(): the lines of the text, each with its terminator; only the
\* last line can lack one.
RECURSIVE readlines(_)
readlines(s) ==
    IF s = <<>> THEN <<>>
    ELSE LET k == FirstLineLen(s)
         IN  <<SubSeq(s, 1, k)>> \o readlines(SubSeq(s, k + 1, Len(s)))

\* ------------------------------------------------------------------ state
VARIABLES
    disk,            \* the files: for each name, whether it exists and its content
    file_name,       \* main / process_file: file_name
    output_file_name, \* main / process_file: output_file_name
    candidate,       \* ask_input_file_name / ask_output_file_name: file_name
    message,         \* ask_confirmation: message
    yes,             \* ask_confirmation: yes
    no,              \* ask_confirmation: no
    default,         \* ask_confirmation: default
    long_message,    \* ask_confirmation: long_message of the last prompt
    typed,           \* the text the user typed last
    answer,          \* ask_confirmation: answer
    result,          \* the value ask_confirmation returned
    caller,          \* who called ask_confirmation
    prompts,         \* number of answers typed so far
    pc,              \* position of the program
    lines,           \* process_file: lines read
    line_number,     \* process_file: number of lines taken by the for loop
    output_lines,    \* process_file: output_lines
    temp_state,      \* process_file: temp_state (State)
    line,            \* process_line: argument line
    previous_state,  \* process_line: argument previous_state
    brackets,        \* process_line: brackets
    in_quotes,       \* process_line: in_quotes
    escaped,         \* process_line: escaped
    processed_line,  \* process_line: processed_line, then the list returned
    start,           \* process_line: start
    i,               \* process_line: index of the next character of the for loop
    current_state,   \* process_line: current_state returned
    warnings         \* the lines printed with the unbalanced-close warning

cli_vars ==
    <<file_name, output_file_name, candidate, message, yes, no, default,
      long_message, typed, answer, result, caller, prompts>>

vars ==
    <<disk, pc, lines, line_number, output_lines, temp_state, line,
      previous_state, brackets, in_quotes, escaped, processed_line, start, i,
      current_state, warnings, cli_vars>>

file_vars == <<disk, lines, line_number, output_lines, temp_state>>

\* The names a file can have.
Names == {"in", "out"}

NoFile == [exists |-> FALSE, content |-> <<>>]

FileOf(text) == [exists |-> TRUE, content |-> text]

\* Content of the input file.
file == IF file_name \in Names THEN disk[file_name].content ELSE <<>>

\* Content of the output file.
out == IF output_file_name \in Names THEN disk[output_file_name].content ELSE <<>>

\* class State
State(q, b) == [in_quotes |-> q, brackets |-> b]

\* The working values of process_line's scan.
Locals ==
    [brackets |-> brackets, in_quotes |-> in_quotes, escaped |-> escaped,
     processed_line |-> processed_line, start |-> start]

\* ------------------------------------------------------------ process_line
\* The working values at entry: brackets and in_quotes come from the previous
\* state, escaped is False, nothing is flushed.
initial_locals_unquoted(prev) ==
    [brackets |-> prev.brackets, in_quotes |-> FALSE, escaped |-> FALSE,
     processed_line |-> <<>>, start |-> 0]

initial_locals_keeps_escaped(prev) ==
    [brackets |-> prev.brackets, in_quotes |-> prev.in_quotes, escaped |-> escaped,
     processed_line |-> <<>>, start |-> 0]

initial_locals(prev) ==
    [brackets |-> prev.brackets, in_quotes |-> prev.in_quotes, escaped |-> FALSE,
     processed_line |-> <<>>, start |-> 0]

\* line[i] == '\\'
on_backslash(L) == [L EXCEPT !.escaped = ~L.escaped]

on_quote_always_toggles(L) ==
    [L EXCEPT !.escaped = FALSE, !.in_quotes = ~L.in_quotes]

\* line[i] == '\''
on_quote(L) ==
    IF L.escaped
    THEN [L EXCEPT !.escaped = FALSE]
    ELSE [L EXCEPT !.in_quotes = ~L.in_quotes]

on_open_keeps_start(L, ln, idx) ==
    IF ~L.in_quotes
    THEN [L EXCEPT
            !.processed_line =
                IF L.brackets = 0 /\ idx > 0
                THEN Append(L.processed_line, Slice(ln, L.start, idx) \o <<NL>>)
                ELSE L.processed_line,
            !.brackets = L.brackets + 1,
            !.escaped = FALSE]
    ELSE [L EXCEPT !.escaped = FALSE]

on_open_at_line_start(L, ln, idx) ==
    IF ~L.in_quotes
    THEN [L EXCEPT
            !.processed_line =
                IF L.brackets = 0
                THEN Append(L.processed_line, Slice(ln, L.start, idx) \o <<NL>>)
                ELSE L.processed_line,
            !.start = IF L.brackets = 0 THEN idx ELSE L.start,
            !.brackets = L.brackets + 1,
            !.escaped = FALSE]
    ELSE [L EXCEPT !.escaped = FALSE]

on_open_in_quotes(L, ln, idx) ==
    [L EXCEPT
        !.processed_line =
            IF L.brackets = 0 /\ idx > 0
            THEN Append(L.processed_line, Slice(ln, L.start, idx) \o <<NL>>)
            ELSE L.processed_line,
        !.start = IF L.brackets = 0 THEN idx ELSE L.start,
        !.brackets = L.brackets + 1,
        !.escaped = FALSE]

on_open_no_newline(L, ln, idx) ==
    IF ~L.in_quotes
    THEN [L EXCEPT
            !.processed_line =
                IF L.brackets = 0 /\ idx > 0
                THEN Append(L.processed_line, Slice(ln, L.start, idx))
                ELSE L.processed_line,
            !.start = IF L.brackets = 0 THEN idx ELSE L.start,
            !.brackets = L.brackets + 1,
            !.escaped = FALSE]
    ELSE [L EXCEPT !.escaped = FALSE]

\* line[i] == '(' at index idx of ln
on_open(L, ln, idx) ==
    IF ~L.in_quotes
    THEN [L EXCEPT
            !.processed_line =
                IF L.brackets = 0 /\ idx > 0
                THEN Append(L.processed_line, Slice(ln, L.start, idx) \o <<NL>>)
                ELSE L.processed_line,
            !.start = IF L.brackets = 0 THEN idx ELSE L.start,
            !.brackets = L.brackets + 1,
            !.escaped = FALSE]
    ELSE [L EXCEPT !.escaped = FALSE]

on_close_unguarded(L) ==
    IF ~L.in_quotes
    THEN [L EXCEPT !.brackets = L.brackets - 1, !.escaped = FALSE]
    ELSE [L EXCEPT !.escaped = FALSE]

on_close_escaped_in_quotes(L) ==
    IF ~L.in_quotes
    THEN IF L.brackets > 0
         THEN [L EXCEPT !.brackets = L.brackets - 1, !.escaped = FALSE]
         ELSE [L EXCEPT !.escaped = FALSE]
    ELSE L

\* line[i] == ')'
on_close(L) ==
    IF ~L.in_quotes /\ L.brackets > 0
    THEN [L EXCEPT !.brackets = L.brackets - 1, !.escaped = FALSE]
    ELSE [L EXCEPT !.escaped = FALSE]

warns_never(L, c) == FALSE

\* The scan of character c prints the warning and the line.
warns(L, c) == c = CLOSE /\ ~L.in_quotes /\ ~(L.brackets > 0)

\* line[i] other than mentioned above
on_other(L) == [L EXCEPT !.escaped = FALSE]

\* One pass of the for loop, at index idx of ln.
loop_body(L, ln, idx) ==
    LET c == ln[idx + 1]
    IN  CASE c = BSL -> on_backslash(L)
          [] c = QUOTE -> on_quote(L)
          [] c = OPEN -> on_open(L, ln, idx)
          [] c = CLOSE -> on_close(L)
          [] OTHER -> on_other(L)

\* The working values after the first k characters of ln, entered with prev.
RECURSIVE scanned(_, _, _)
scanned(ln, prev, k) ==
    IF k = 0 THEN initial_locals(prev)
    ELSE loop_body(scanned(ln, prev, k - 1), ln, k - 1)

\* What process_line(ln, prev) returns: the fragments and the state.
process_line(ln, prev) ==
    LET L == scanned(ln, prev, Len(ln))
    IN  [fragments |-> Append(L.processed_line, SliceFrom(ln, L.start)),
         state |-> State(L.in_quotes, L.brackets)]

\* ------------------------------------------------------------ process_file
\* len(line) == 1
is_empty_line(ln) == Len(ln) = 1

\* line[:2] == "--"
is_commented(ln) == Slice(ln, 0, 2) = <<DASH, DASH>>

extended_by_last(ol, frags) == Append(ol, frags[Len(frags)])

\* for p in processed_line: output_lines.append(p)
extended(ol, frags) == ol \o frags

\* ---------------------------------------------------------------- actions
\* The variables of process_file and process_line before process_file runs.
InitFrames ==
    /\ lines = <<>>
    /\ line_number = 0
    /\ output_lines = <<>>
    /\ temp_state = State(FALSE, 0)
    /\ line = <<>>
    /\ previous_state = State(FALSE, 0)
    /\ brackets = 0
    /\ in_quotes = FALSE
    /\ escaped = FALSE
    /\ processed_line = <<>>
    /\ start = 0
    /\ i = 0
    /\ current_state = State(FALSE, 0)
    /\ warnings = <<>>

\* The variables of the prompts when nothing was asked.
InitPrompts ==
    /\ candidate = ""
    /\ message = ""
    /\ yes = <<>>
    /\ no = <<>>
    /\ default = FALSE
    /\ long_message = <<>>
    /\ typed = <<>>
    /\ answer = <<>>
    /\ result = FALSE
    /\ caller = "none"
    /\ prompts = 0

\* process_file is called with an input file and the name of an output file
\* that does not exist.
Init ==
    /\ \E text \in Files : disk = [n \in Names |-> IF n = "in" THEN FileOf(text) ELSE NoFile]
    /\ file_name = "in"
    /\ output_file_name = "out"
    /\ pc = "read"
    /\ InitFrames
    /\ InitPrompts

line_vars ==
    <<line, previous_state, brackets, in_quotes, escaped, processed_line,
      start, i, current_state, warnings>>

\* with open(file_name) as f: lines = f.readlines()
ReadLines ==
    /\ pc = "read"
    /\ lines' = readlines(file)
    /\ pc' = "for"
    /\ UNCHANGED <<disk, line_number, output_lines, temp_state>>
    /\ UNCHANGED line_vars
    /\ UNCHANGED cli_vars

\* The for loop takes a line of length 1: appended, continue.
PassEmpty ==
    /\ pc = "for"
    /\ line_number < Len(lines)
    /\ is_empty_line(lines[line_number + 1])
    /\ line_number' = line_number + 1
    /\ output_lines' = Append(output_lines, lines[line_number + 1])
    /\ UNCHANGED <<disk, pc, lines, temp_state>>
    /\ UNCHANGED line_vars
    /\ UNCHANGED cli_vars

PassCommentResets ==
    /\ pc = "for"
    /\ line_number < Len(lines)
    /\ ~is_empty_line(lines[line_number + 1])
    /\ is_commented(lines[line_number + 1])
    /\ line_number' = line_number + 1
    /\ output_lines' = Append(output_lines, lines[line_number + 1])
    /\ temp_state' = State(FALSE, 0)
    /\ UNCHANGED <<disk, pc, lines>>
    /\ UNCHANGED line_vars
    /\ UNCHANGED cli_vars

\* The for loop takes a line that begins with "--": appended, continue.
PassComment ==
    /\ pc = "for"
    /\ line_number < Len(lines)
    /\ ~is_empty_line(lines[line_number + 1])
    /\ is_commented(lines[line_number + 1])
    /\ line_number' = line_number + 1
    /\ output_lines' = Append(output_lines, lines[line_number + 1])
    /\ UNCHANGED <<disk, pc, lines, temp_state>>
    /\ UNCHANGED line_vars
    /\ UNCHANGED cli_vars

\* The for loop takes any other line and calls process_line(line, temp_state).
CallProcessLine ==
    /\ pc = "for"
    /\ line_number < Len(lines)
    /\ ~is_empty_line(lines[line_number + 1])
    /\ ~is_commented(lines[line_number + 1])
    /\ line_number' = line_number + 1
    /\ line' = lines[line_number + 1]
    /\ previous_state' = temp_state
    /\ LET L == initial_locals(temp_state)
       IN  /\ brackets' = L.brackets
           /\ in_quotes' = L.in_quotes
           /\ escaped' = L.escaped
           /\ processed_line' = L.processed_line
           /\ start' = L.start
    /\ i' = 0
    /\ pc' = "scan"
    /\ UNCHANGED <<disk, lines, output_lines, temp_state, current_state, warnings>>
    /\ UNCHANGED cli_vars

\* One pass of process_line's for loop.
ScanChar ==
    /\ pc = "scan"
    /\ i < Len(line)
    /\ LET L == loop_body(Locals, line, i)
       IN  /\ brackets' = L.brackets
           /\ in_quotes' = L.in_quotes
           /\ escaped' = L.escaped
           /\ processed_line' = L.processed_line
           /\ start' = L.start
    /\ warnings' =
        IF warns(Locals, line[i + 1]) THEN Append(warnings, line) ELSE warnings
    /\ i' = i + 1
    /\ UNCHANGED <<pc, line, previous_state, current_state>>
    /\ UNCHANGED file_vars
    /\ UNCHANGED cli_vars

ReturnWithNewline ==
    /\ pc = "scan"
    /\ i = Len(line)
    /\ processed_line' = Append(processed_line, SliceFrom(line, start) \o <<NL>>)
    /\ current_state' = State(in_quotes, brackets)
    /\ pc' = "ret"
    /\ UNCHANGED <<line, previous_state, brackets, in_quotes, escaped, start, i, warnings>>
    /\ UNCHANGED file_vars
    /\ UNCHANGED cli_vars

\* After the loop: the remaining part is appended and the state is returned.
Return ==
    /\ pc = "scan"
    /\ i = Len(line)
    /\ processed_line' = Append(processed_line, SliceFrom(line, start))
    /\ current_state' = State(in_quotes, brackets)
    /\ pc' = "ret"
    /\ UNCHANGED <<line, previous_state, brackets, in_quotes, escaped, start, i, warnings>>
    /\ UNCHANGED file_vars
    /\ UNCHANGED cli_vars

AssignAndWrite ==
    /\ pc = "ret"
    /\ temp_state' = current_state
    /\ output_lines' = extended(output_lines, processed_line)
    /\ disk' = [disk EXCEPT ![output_file_name] = FileOf(Flatten(output_lines'))]
    /\ pc' = "for"
    /\ UNCHANGED <<lines, line_number>>
    /\ UNCHANGED line_vars
    /\ UNCHANGED cli_vars

\* processed_line, temp_state = process_line(...), and the fragments are
\* appended to output_lines.
Assign ==
    /\ pc = "ret"
    /\ temp_state' = current_state
    /\ output_lines' = extended(output_lines, processed_line)
    /\ pc' = "for"
    /\ UNCHANGED <<disk, lines, line_number>>
    /\ UNCHANGED line_vars
    /\ UNCHANGED cli_vars

\* After the last line the output file is opened and every element written.
Save ==
    /\ pc = "for"
    /\ line_number = Len(lines)
    /\ disk' = [disk EXCEPT ![output_file_name] = FileOf(Flatten(output_lines))]
    /\ pc' = "done"
    /\ UNCHANGED <<lines, line_number, output_lines, temp_state>>
    /\ UNCHANGED line_vars
    /\ UNCHANGED cli_vars

Next ==
    \/ ReadLines
    \/ PassEmpty
    \/ PassComment
    \/ CallProcessLine
    \/ ScanChar
    \/ Return
    \/ Assign
    \/ Save

Spec == Init /\ [][Next]_vars

\* ------------------------------------------------- process_line on its own
\* The characters process_line tells apart, and one it does not.
LineAlphabet == {BSL, QUOTE, OPEN, CLOSE, "a"}

\* The texts of at most n characters of LineAlphabet.
LineTexts(n) == UNION {[1..k -> LineAlphabet] : k \in 0..n}

\* The states a call of process_line is given first.
FirstStates == {State(q, b) : q \in BOOLEAN, b \in 0..1}

\* process_line is called twice, the second time with the state the first
\* call returned; lines holds the lines it was called with.
InitLine ==
    /\ \E st \in FirstStates : temp_state = st
    /\ disk = [n \in Names |-> NoFile]
    /\ file_name = ""
    /\ output_file_name = ""
    /\ pc = "for"
    /\ lines = <<>>
    /\ line_number = 0
    /\ output_lines = <<>>
    /\ line = <<>>
    /\ previous_state = State(FALSE, 0)
    /\ brackets = 0
    /\ in_quotes = FALSE
    /\ escaped = FALSE
    /\ processed_line = <<>>
    /\ start = 0
    /\ i = 0
    /\ current_state = State(FALSE, 0)
    /\ warnings = <<>>
    /\ InitPrompts

\* process_line(ln, temp_state) for a line ln of the caller's choice.
CallDirect ==
    /\ pc = "for"
    /\ line_number \in {0, 1}
    /\ \E ln \in LineTexts(IF line_number = 0 THEN MaxLineLen ELSE MaxNextLen) :
          /\ lines' = Append(lines, ln)
          /\ line' = ln
    /\ line_number' = line_number + 1
    /\ previous_state' = temp_state
    /\ LET L == initial_locals(temp_state)
       IN  /\ brackets' = L.brackets
           /\ in_quotes' = L.in_quotes
           /\ escaped' = L.escaped
           /\ processed_line' = L.processed_line
           /\ start' = L.start
    /\ i' = 0
    /\ pc' = "scan"
    /\ UNCHANGED <<disk, output_lines, temp_state, current_state, warnings>>
    /\ UNCHANGED cli_vars

NextLine ==
    \/ CallDirect
    \/ ScanChar
    \/ Return
    \/ Assign

SpecLine == InitLine /\ [][NextLine]_vars

\* ------------------------------------------------------------- the prompts
\* str.lower() and str.upper() on the letters the answers are made of.
lower_char(c) ==
    CASE c = "Y" -> "y"
      [] c = "E" -> "e"
      [] c = "S" -> "s"
      [] c = "N" -> "n"
      [] c = "O" -> "o"
      [] OTHER -> c

upper_char(c) ==
    CASE c = "y" -> "Y"
      [] c = "e" -> "E"
      [] c = "s" -> "S"
      [] c = "n" -> "N"
      [] c = "o" -> "O"
      [] OTHER -> c

lower(text) == [k \in 1..Len(text) |-> lower_char(text[k])]

upper(text) == [k \in 1..Len(text) |-> upper_char(text[k])]

\* What the user can type at a confirmation.
Answers ==
    {<<>>, <<"y">>, <<"Y">>, <<"n">>, <<"N">>, <<"a">>, <<"y", "e">>,
     <<"y", "e", "s">>, <<"Y", "E", "S">>, <<"Y", "e", "s">>,
     <<"n", "o">>, <<"N", "O">>, <<"n", "O">>}

\* The yes and no ask_confirmation is called with: its defaults, and those of
\* the example of its documentation in two spellings.
ConfirmWords ==
    {<<<<"y">>, <<"n">>>>,
     <<<<"y", "e", "s">>, <<"n", "o">>>>,
     <<<<"Y", "e", "s">>, <<"N", "o">>>>}

\* os.path.isfile(file_name)
file_exists(name) == disk[name].exists

must_confirm_never(name) == FALSE

\* verify_file_name asks for a confirmation.
must_confirm(name) == file_exists(name)

\* yes and no as ask_confirmation shows and compares them.
shown_yes(y, d) == IF d THEN upper(y) ELSE lower(y)

shown_no(n, d) == IF d THEN lower(n) ELSE upper(n)

\* long_message
prompt_text(msg, y, n) == <<msg, " [", y, "/", n, "]: ">>

verdict_default_on_other(ans, y, n) ==
    IF ans = lower(y) THEN "yes"
    ELSE IF ans = lower(n) THEN "no"
    ELSE "default"

\* What ask_confirmation does with the answer.
verdict(ans, y, n) ==
    IF ans = lower(y) THEN "yes"
    ELSE IF ans = lower(n) THEN "no"
    ELSE IF ans = <<>> THEN "default"
    ELSE "again"

frame_vars ==
    <<lines, line_number, output_lines, temp_state, line, previous_state,
      brackets, in_quotes, escaped, processed_line, start, i, current_state,
      warnings>>

confirm_vars == <<message, yes, no, default, long_message, typed, answer, result, caller>>

\* main is called; each name is that of no file or of a file.
MainFiles ==
    {<<"a", OPEN, CLOSE, OPEN, NL, NL, DASH, DASH, NL>>, <<QUOTE, OPEN, NL>>}

InitMain ==
    /\ disk \in [Names -> {NoFile} \cup {FileOf(text) : text \in MainFiles}]
    /\ file_name = ""
    /\ output_file_name = ""
    /\ pc = "ask_in"
    /\ InitFrames
    /\ InitPrompts

\* ask_input_file_name: ask_value until something is typed; the name of a
\* file is returned to main, anything else is asked again.
AskInput ==
    /\ pc = "ask_in"
    /\ prompts < MaxPrompts
    /\ \E t \in Names \cup {""} :
          /\ candidate' = IF t = "" THEN candidate ELSE t
          /\ IF t # "" /\ file_exists(t)
             THEN file_name' = t /\ pc' = "ask_out"
             ELSE UNCHANGED <<file_name, pc>>
    /\ prompts' = prompts + 1
    /\ UNCHANGED <<disk, output_file_name>>
    /\ UNCHANGED confirm_vars
    /\ UNCHANGED frame_vars

\* ask_output_file_name: ask_value until something is typed, then
\* verify_file_name: the name of no file is returned to main, which calls
\* process_file; for the name of a file ask_confirmation is called.
AskOutput ==
    /\ pc = "ask_out"
    /\ prompts < MaxPrompts
    /\ \E t \in Names \cup {""} :
          /\ candidate' = IF t = "" THEN candidate ELSE t
          /\ IF t = ""
             THEN UNCHANGED <<output_file_name, pc, message, yes, no, default, long_message, caller>>
             ELSE IF must_confirm(t)
                  THEN /\ message' = "File exists! Do you want to overwrite file?"
                       /\ yes' = <<"y">>
                       /\ no' = <<"n">>
                       /\ default' = FALSE
                       /\ long_message' = <<>>
                       /\ caller' = "verify"
                       /\ pc' = "confirm"
                       /\ UNCHANGED output_file_name
                  ELSE /\ output_file_name' = t
                       /\ pc' = "read"
                       /\ UNCHANGED <<message, yes, no, default, long_message, caller>>
    /\ prompts' = prompts + 1
    /\ UNCHANGED <<disk, file_name, typed, answer, result>>
    /\ UNCHANGED frame_vars

\* ask_confirmation: the prompt, the answer, and the return or the call of
\* itself; in verify_file_name and ask_output_file_name the value returned
\* makes main call process_file or the name be asked again.
Confirm ==
    /\ pc = "confirm"
    /\ prompts < MaxPrompts
    /\ yes' = shown_yes(yes, default)
    /\ no' = shown_no(no, default)
    /\ long_message' = prompt_text(message, yes', no')
    /\ \E t \in Answers :
          /\ typed' = t
          /\ answer' = lower(t)
    /\ prompts' = prompts + 1
    /\ LET v == verdict(answer', yes', no')
           value == v = "yes" \/ (v = "default" /\ default)
       IN  IF v = "again"
           THEN UNCHANGED <<result, pc, output_file_name>>
           ELSE /\ result' = value
                /\ IF caller = "verify"
                   THEN IF value
                        THEN output_file_name' = candidate /\ pc' = "read"
                        ELSE pc' = "ask_out" /\ UNCHANGED output_file_name
                   ELSE pc' = "returned" /\ UNCHANGED output_file_name
    /\ UNCHANGED <<disk, file_name, candidate, message, default, caller>>
    /\ UNCHANGED frame_vars

NextMain ==
    \/ AskInput
    \/ AskOutput
    \/ Confirm
    \/ ReadLines
    \/ PassEmpty
    \/ PassComment
    \/ CallProcessLine
    \/ ScanChar
    \/ Return
    \/ Assign
    \/ Save

SpecMain == InitMain /\ [][NextMain]_vars

\* ask_confirmation is called on its own.
InitConfirm ==
    /\ disk = [n \in Names |-> NoFile]
    /\ file_name = ""
    /\ output_file_name = ""
    /\ pc = "confirm"
    /\ InitFrames
    /\ candidate = ""
    /\ message = "Are you sure?"
    /\ \E w \in ConfirmWords : yes = w[1] /\ no = w[2]
    /\ default \in BOOLEAN
    /\ long_message = <<>>
    /\ typed = <<>>
    /\ answer = <<>>
    /\ result = FALSE
    /\ caller = "test"
    /\ prompts = 0

SpecConfirm == InitConfirm /\ [][Confirm]_vars

\* ----------------------------------------------------------------- claims
\* The fragments with the last character of every fragment but the last removed.
StripSplit(frags) ==
    [k \in 1..Len(frags) |->
        IF k < Len(frags) THEN SubSeq(frags[k], 1, Len(frags[k]) - 1) ELSE frags[k]]

\* process_line has returned for `line`, entered with previous_state.
Returned == pc = "ret"

\* The line begins with two dashes.
BeginsWithDashes(ln) == Len(ln) >= 2 /\ ln[1] = DASH /\ ln[2] = DASH

\* C1: when process_line returns, every fragment but the last ends with a
\* newline, and the fragments without those newlines, concatenated in order,
\* are the line.
C1_RoundTrip ==
    Returned =>
        /\ \A k \in 1..(Len(processed_line) - 1) :
              /\ Len(processed_line[k]) >= 1
              /\ processed_line[k][Len(processed_line[k])] = NL
        /\ Flatten(StripSplit(processed_line)) = line

\* A line entered with an open bracket from an earlier line has been split.
C1_Witness ==
    /\ Returned
    /\ previous_state.brackets > 0
    /\ Len(processed_line) >= 2

\* Text o is text t with newlines inserted, each immediately before a '('.
RECURSIVE IsNewlineInsertion(_, _)
IsNewlineInsertion(o, t) ==
    IF o = <<>> THEN t = <<>>
    ELSE IF t # <<>> /\ Head(o) = Head(t)
         THEN IsNewlineInsertion(Tail(o), Tail(t))
         ELSE /\ Head(o) = NL
              /\ Len(o) >= 2
              /\ o[2] = OPEN
              /\ IsNewlineInsertion(Tail(o), t)

\* The lines the for loop has finished with.
LinesDone == SubSeq(lines, 1, line_number)

\* C2: the lines read are the file; between two lines and at the end the
\* output so far is the text of the lines done with one newline inserted per
\* additional output element, each before a '(', and no other change; the
\* output file holds the output elements in order.
C2_Reconstructible ==
    /\ pc # "read" => Flatten(lines) = file
    /\ pc \in {"for", "done"} =>
          /\ IsNewlineInsertion(Flatten(output_lines), Flatten(LinesDone))
          /\ Len(Flatten(output_lines)) - Len(Flatten(LinesDone))
                = Len(output_lines) - line_number
    /\ pc = "done" =>
          /\ line_number = Len(lines)
          /\ out = Flatten(output_lines)
          /\ IsNewlineInsertion(out, file)

\* A file of several lines, one of them passed through and one split, is saved.
C2_Witness ==
    /\ pc = "done"
    /\ Len(lines) >= 2
    /\ Len(output_lines) > Len(lines)
    /\ \E k \in 1..Len(lines) : is_empty_line(lines[k])

\* Number of characters of the line in the first k fragments.
RECURSIVE RawLen(_, _)
RawLen(frags, k) ==
    IF k = 0 THEN 0 ELSE RawLen(frags, k - 1) + Len(frags[k]) - 1

\* The indices at which the fragments of the line begin, the first excepted.
Boundaries(frags) == {RawLen(frags, k) : k \in 1..(Len(frags) - 1)}

\* The indices k > 0 of ln that hold a '(' met outside quotes at depth 0.
SplitPositions(ln, prev) ==
    {k \in 1..(Len(ln) - 1) :
        /\ ln[k + 1] = OPEN
        /\ ~scanned(ln, prev, k).in_quotes
        /\ scanned(ln, prev, k).brackets = 0}

\* The scan is about to take character c.
Scanning(c) == pc = "scan" /\ i < Len(line) /\ line[i + 1] = c

\* The scan step flushes a fragment.
Flushes == processed_line' # processed_line

C3_Boundaries ==
    Returned =>
        /\ Boundaries(processed_line) = SplitPositions(line, previous_state)
        /\ Len(processed_line) = 1 + Cardinality(SplitPositions(line, previous_state))

C3_Step ==
    /\ (pc = "scan" /\ i < Len(line)) =>
          (Flushes <=> (line[i + 1] = OPEN /\ ~in_quotes /\ brackets = 0 /\ i > 0))
    /\ (Flushes /\ pc = "scan" /\ i < Len(line)) =>
          /\ processed_line' = Append(processed_line, Slice(line, start, i) \o <<NL>>)
          /\ start' = i
    /\ (Scanning(OPEN) /\ ~in_quotes /\ brackets > 0) =>
          /\ brackets' = brackets + 1
          /\ ~Flushes
          /\ start' = start

C4_Step ==
    ((Scanning(OPEN) \/ Scanning(CLOSE)) /\ in_quotes) =>
        /\ ~Flushes
        /\ start' = start
        /\ brackets' = brackets
        /\ warnings' = warnings
        /\ in_quotes'

C4_Example ==
    (Returned /\ line = LineQuotedOpen /\ previous_state = State(FALSE, 0)) =>
        processed_line =
            <<<<"a", QUOTE, OPEN, "b", QUOTE, "c", NL>>, <<OPEN, "d", CLOSE>>>>

\* C4: a '(' or ')' taken while in quotes flushes nothing, leaves the depth
\* and the warnings as they are and stays in quotes; a'(b'c(d) entered with
\* {False, 0} returns the fragments a'(b'c + newline and (d).
C4_QuotedBracketsIgnored == [](C4_Example) /\ [][C4_Step]_vars

\* a'(b'c(d) entered with {False, 0} has returned.
C4_Witness ==
    /\ Returned
    /\ line = LineQuotedOpen
    /\ previous_state = State(FALSE, 0)
    /\ Len(processed_line) = 2

\* C5 as stated: with the lines 'abc and def'(x), the first is entered with
\* {False, 0} and returns {True, 0}, which becomes the threaded state; the
\* second is entered with it and returns the one fragment def'(x) and
\* {False, 0}, the final state.
C5_QuoteCarriedUnsplit ==
    lines = <<LineAbc, LineDef>> =>
        /\ (Returned /\ line_number = 1) =>
              /\ previous_state = State(FALSE, 0)
              /\ current_state = State(TRUE, 0)
        /\ (pc = "for" /\ line_number = 1) => temp_state = State(TRUE, 0)
        /\ (Returned /\ line_number = 2) =>
              /\ previous_state = State(TRUE, 0)
              /\ processed_line = <<LineDef>>
              /\ current_state = State(FALSE, 0)
        /\ pc = "done" =>
              /\ temp_state = State(FALSE, 0)
              /\ output_lines = <<LineAbc, LineDef>>

\* C5 amended: with the lines 'abc and def'(x), the first is entered with
\* {False, 0} and returns {True, 0}, which becomes the threaded state; the
\* second is entered with it, its quote closes the string the first opened,
\* so its '(' is outside quotes at depth 0 and it returns the two fragments
\* def' + newline and (x), and {False, 0}, the final state.
C5_QuoteCarried ==
    lines = <<LineAbc, LineDef>> =>
        /\ (Returned /\ line_number = 1) =>
              /\ previous_state = State(FALSE, 0)
              /\ current_state = State(TRUE, 0)
              /\ processed_line = <<LineAbc>>
        /\ (pc = "for" /\ line_number = 1) => temp_state = State(TRUE, 0)
        /\ (pc = "scan" /\ line_number = 2) => (in_quotes <=> i <= 3)
        /\ (Returned /\ line_number = 2) =>
              /\ previous_state = State(TRUE, 0)
              /\ processed_line =
                    <<<<"d", "e", "f", QUOTE, NL>>, <<OPEN, "x", CLOSE>>>>
              /\ current_state = State(FALSE, 0)
        /\ pc = "done" =>
              /\ temp_state = State(FALSE, 0)
              /\ output_lines =
                    <<LineAbc, <<"d", "e", "f", QUOTE, NL>>, <<OPEN, "x", CLOSE>>>>

\* The two lines are done and saved.
C5_Witness ==
    /\ pc = "done"
    /\ lines = <<LineAbc, LineDef>>
    /\ Len(output_lines) = 3

C6_Step ==
    Scanning(QUOTE) =>
        IF escaped
        THEN ~escaped' /\ in_quotes' = in_quotes
        ELSE in_quotes' = ~in_quotes

C6_Example ==
    (Returned /\ line = <<BSL, QUOTE, OPEN>> /\ previous_state = State(FALSE, 0)) =>
        /\ processed_line = <<<<BSL, QUOTE, NL>>, <<OPEN>>>>
        /\ current_state = State(FALSE, 1)

\* C6: a quote taken while escaped clears escaped and leaves in_quotes, a
\* quote taken while not escaped toggles in_quotes; backslash, quote, '('
\* entered with {False, 0} returns the fragments backslash quote + newline
\* and '(' and the state {False, 1}.
C6_EscapedQuote == [](C6_Example) /\ [][C6_Step]_vars

\* Backslash, quote, '(' entered with {False, 0} has returned.
C6_Witness ==
    /\ Returned
    /\ line = <<BSL, QUOTE, OPEN>>
    /\ previous_state = State(FALSE, 0)
    /\ ~in_quotes

C7_Step ==
    (Scanning(CLOSE) /\ ~in_quotes /\ brackets = 0) =>
        /\ warnings' = Append(warnings, line)
        /\ brackets' = 0
        /\ pc' = "scan"
        /\ i' = i + 1
        /\ line' = line
        /\ UNCHANGED <<in_quotes, processed_line, start>>

C7_Example ==
    (Returned /\ line_number = 1 /\ line = <<CLOSE, OPEN>>) =>
        /\ warnings = <<line>>
        /\ processed_line = <<<<CLOSE, NL>>, <<OPEN>>>>
        /\ current_state = State(FALSE, 1)

\* C7: a ')' taken outside quotes at depth 0 prints one warning with the line,
\* leaves the depth at 0 and the scan goes on with the next character; )( as
\* the first line warns once, is split before the '(' and returns depth 1.
C7_UnbalancedClose == [](C7_Example) /\ [][C7_Step]_vars

\* )( as the first line has returned.
C7_Witness ==
    /\ Returned
    /\ line_number = 1
    /\ line = <<CLOSE, OPEN>>
    /\ Len(warnings) = 1

\* C8: the depth in process_line, the state it is given, the state it returns
\* and the state process_file threads are never negative.
C8_DepthNonNegative ==
    /\ brackets >= 0
    /\ previous_state.brackets >= 0
    /\ current_state.brackets >= 0
    /\ temp_state.brackets >= 0

\* A ')' was taken outside quotes at depth 0, in a line after the first.
C8_Witness ==
    /\ pc = "scan"
    /\ line_number >= 2
    /\ i > 0
    /\ line[i] = CLOSE
    /\ warnings # <<>>
    /\ brackets = 0

\* The for loop is about to take a line that is only a newline or begins
\* with two dashes.
TakesPassThrough ==
    /\ pc = "for"
    /\ line_number < Len(lines)
    /\ \/ lines[line_number + 1] = <<NL>>
       \/ BeginsWithDashes(lines[line_number + 1])

C9_Step ==
    TakesPassThrough =>
        /\ output_lines' = Append(output_lines, lines[line_number + 1])
        /\ temp_state' = temp_state
        /\ line_number' = line_number + 1
        /\ pc' = "for"

C9_Example ==
    (pc = "done" /\ file = FileNote) =>
        /\ output_lines =
              <<<<QUOTE, "a", NL>>, LineNote, <<"b", QUOTE, NL>>, <<OPEN, "c", CLOSE, NL>>>>
        /\ temp_state = State(FALSE, 0)

\* C9: a line that is only a newline or begins with -- is appended to the
\* output as one element and the threaded state stays as it was; in 'a,
\* --'(, b'(c) the third line is split as it is without the second, into b'
\* and (c), and the final state is {False, 0}.
C9_PassThroughKeepsState == [](C9_Example) /\ [][C9_Step]_vars

\* A commented line was passed through with a quote open.
C9_Witness ==
    /\ pc = "for"
    /\ line_number >= 2
    /\ BeginsWithDashes(lines[line_number])
    /\ output_lines[Len(output_lines)] = lines[line_number]
    /\ temp_state.in_quotes

\* C10: once the for loop is done with a line that is neither only a newline
\* nor begins with --, that line is the one process_line was last called with
\* and the threaded state is the state it returned.
C10_OtherLinesScanned ==
    (/\ pc = "for"
     /\ line_number >= 1
     /\ lines[line_number] # <<NL>>
     /\ ~BeginsWithDashes(lines[line_number])) =>
        /\ line = lines[line_number]
        /\ temp_state = current_state
        /\ current_state =
              State(scanned(line, previous_state, Len(line)).in_quotes,
                    scanned(line, previous_state, Len(line)).brackets)

\* C11: when process_line returns for a line in which no '(' at an index > 0
\* is met outside quotes at depth 0 (so for a line without '(' , and for a
\* line whose only '(' is at index 0), the one fragment returned is the line,
\* with nothing appended.
C11_OneFragment ==
    Returned =>
        /\ SplitPositions(line, previous_state) = {} => processed_line = <<line>>
        /\ (\A k \in 2..Len(line) : line[k] # OPEN) => processed_line = <<line>>

\* A line that begins with '(' and holds a nested '(' has returned unsplit.
C11_Witness ==
    /\ Returned
    /\ previous_state = State(FALSE, 0)
    /\ Len(line) >= 3
    /\ line[1] = OPEN
    /\ line[2] = OPEN
    /\ processed_line = <<line>>

C12_Entry == (pc = "scan" /\ i = 0) => ~escaped

C12_Function ==
    Returned =>
        /\ processed_line = process_line(line, previous_state).fragments
        /\ current_state = process_line(line, previous_state).state

C12_Step == (Scanning(QUOTE) /\ i = 0) => in_quotes' = ~in_quotes

\* C12: escaped is False when the scan of a line begins, whatever the line
\* scanned before; the fragments and the state returned are those of the
\* line, the incoming in_quotes and the incoming depth alone; a quote at
\* index 0 toggles in_quotes.
C12_EscapeNotCarried == [](C12_Entry /\ C12_Function) /\ [][C12_Step]_vars

\* After a line that ends with one backslash, a line that begins with a quote
\* has toggled in_quotes.
C12_Witness ==
    /\ pc = "scan"
    /\ line_number = 2
    /\ lines[1] = <<BSL>>
    /\ i = 1
    /\ line[1] = QUOTE
    /\ in_quotes = ~previous_state.in_quotes

\* The line is only a newline.
IsNewline(ln) == ln = <<NL>>

\* The state after the lines ls, begun in state st, when every line that is
\* neither only a newline nor begins with -- is given to process_line.
RECURSIVE Threaded(_, _)
Threaded(ls, st) ==
    IF ls = <<>> THEN st
    ELSE IF IsNewline(Head(ls)) \/ BeginsWithDashes(Head(ls))
         THEN Threaded(Tail(ls), st)
         ELSE Threaded(Tail(ls), process_line(Head(ls), st).state)

\* A bound on the steps the lines ls still take: a call, a step per
\* character, a return and an assignment.
RECURSIVE StepsOf(_)
StepsOf(ls) == IF ls = <<>> THEN 0 ELSE Len(Head(ls)) + 3 + StepsOf(Tail(ls))

LinesLeft == SubSeq(lines, line_number + 1, Len(lines))

\* A bound on the steps process_file still takes.
StepsLeft ==
    CASE pc = "read" -> 4 * Len(file) + 2
      [] pc = "for" -> StepsOf(LinesLeft) + 1
      [] pc = "scan" -> StepsOf(LinesLeft) + (Len(line) - i) + 3
      [] pc = "ret" -> StepsOf(LinesLeft) + 2
      [] OTHER -> 0

\* Every step of process_file brings the end nearer.
C13_Progress == StepsLeft' < StepsLeft /\ StepsLeft' >= 0

\* Before the end there is always a next step, and process_line returns
\* only at the end of its line.
C13_NotStuck ==
    /\ pc # "done" => ENABLED Next
    /\ Returned => i = Len(line)

\* At the end every line was taken and the output written.
C13_Written ==
    pc = "done" =>
        /\ line_number = Len(lines)
        /\ disk[output_file_name] = FileOf(Flatten(output_lines))

\* At the end the threaded state is the state after every line that is to be
\* scanned: in quotes when the last quote of those lines was left open.
C13_FinalState ==
    pc = "done" => temp_state = Threaded(lines, State(FALSE, 0))

\* process_file ends for every file, unbalanced or not, with the output
\* written.
C13_Terminates == [](C13_NotStuck /\ C13_Written) /\ [][C13_Progress]_vars

\* C13: process_file ends for every file, whatever its brackets and quotes:
\* there is always a next step before the end, every step brings the end
\* nearer, process_line returns only at the end of its line, at the end every
\* line was taken and the output written, and the final state is the state
\* after every line that is to be scanned, in quotes when a quote was left
\* open.
C13_BestEffort == [](C13_FinalState) /\ C13_Terminates

\* Length of the run of backslashes that ends the first k characters of ln.
RECURSIVE TrailingBackslashes(_, _)
TrailingBackslashes(ln, k) ==
    IF k = 0 \/ ln[k] # BSL THEN 0 ELSE 1 + TrailingBackslashes(ln, k - 1)

C16_Parity ==
    pc \in {"scan", "ret"} => (escaped <=> TrailingBackslashes(line, i) % 2 = 1)

C16_Step ==
    Scanning(QUOTE) =>
        ((in_quotes' = ~in_quotes) <=> TrailingBackslashes(line, i) % 2 = 0)

\* C16: at every step of the scan escaped is True exactly when the
\* characters taken so far end with an odd number of backslashes; a quote
\* toggles in_quotes exactly when an even number of backslashes comes
\* immediately before it in the line.
C16_EscapeParity == [](C16_Parity) /\ [][C16_Step]_vars

\* In quotes, after ')' and two backslashes, a quote has closed the quotes.
C16_Witness ==
    /\ pc = "scan"
    /\ previous_state.in_quotes
    /\ line = <<CLOSE, BSL, BSL, QUOTE>>
    /\ i = 4
    /\ ~in_quotes

C17_Fragments ==
    (Returned /\ line # <<>>) =>
        /\ \A k \in 1..(Len(processed_line) - 1) : Len(processed_line[k]) >= 2
        /\ Len(processed_line[Len(processed_line)]) >= 1

C17_Start == (pc \in {"scan", "ret"} /\ line # <<>>) => (0 <= start /\ start < Len(line))

C17_Step ==
    (pc = "scan" /\ i < Len(line) /\ Flushes) => (start < i /\ start' = i)

\* C17: every fragment returned for a non-empty line holds a character of
\* the line: a fragment that is not the last holds one before its newline
\* and the last is not empty; a fragment is flushed only with start below the
\* index of the split, and start stays below the length of the line.
C17_NoEmptyFragment == [](C17_Fragments /\ C17_Start) /\ [][C17_Step]_vars

\* A line split twice has returned.
C17_Witness ==
    /\ Returned
    /\ Len(processed_line) = 3
    /\ Len(line) = 4

\* The text holds one newline, as its last character.
RECURSIVE CountOf(_, _)
CountOf(c, text) ==
    IF text = <<>> THEN 0
    ELSE (IF Head(text) = c THEN 1 ELSE 0) + CountOf(c, Tail(text))

IsPhysicalLine(text) ==
    /\ text # <<>>
    /\ text[Len(text)] = NL
    /\ CountOf(NL, text) = 1

\* Number of splits of the lines ls, begun in state st, as process_file
\* takes them.
RECURSIVE SplitsOf(_, _)
SplitsOf(ls, st) ==
    IF ls = <<>> THEN 0
    ELSE IF is_empty_line(Head(ls)) \/ is_commented(Head(ls))
         THEN SplitsOf(Tail(ls), st)
         ELSE Cardinality(SplitPositions(Head(ls), st))
                  + SplitsOf(Tail(ls), process_line(Head(ls), st).state)

\* C18: when every line read is a physical line (one newline, at its end),
\* every element of the output is one too, also while a line is being taken;
\* at the end the output file holds as many newlines as there are output
\* elements, and these number the input lines plus the splits, never fewer
\* than the input lines.
C18_PhysicalLines ==
    (pc # "read" /\ \A k \in 1..Len(lines) : IsPhysicalLine(lines[k])) =>
        /\ \A k \in 1..Len(output_lines) : IsPhysicalLine(output_lines[k])
        /\ Returned => \A k \in 1..Len(processed_line) : IsPhysicalLine(processed_line[k])
        /\ pc = "done" =>
              /\ CountOf(NL, out) = Len(output_lines)
              /\ CountOf(NL, file) = Len(lines)
              /\ Len(output_lines) = Len(lines) + SplitsOf(lines, State(FALSE, 0))
              /\ Len(output_lines) >= Len(lines)

\* A file of two physical lines, one of them split, is saved.
C18_Witness ==
    /\ pc = "done"
    /\ Len(lines) = 2
    /\ \A k \in 1..Len(lines) : IsPhysicalLine(lines[k])
    /\ Len(output_lines) = 3

\* process_file is running or has run.
InProcessFile == pc \in {"read", "for", "scan", "ret", "done"}

\* The user answered the confirmation for the name with yes.
SaidYes == lower(typed) = <<"y">>

C14_Called ==
    (pc \in {"read", "for", "scan", "ret"} /\ file_exists(output_file_name)) =>
        /\ candidate = output_file_name
        /\ result
        /\ SaidYes

C14_Step ==
    /\ (pc \in {"ask_out", "confirm"} /\ pc' = "read") =>
          \/ pc = "ask_out" /\ ~file_exists(output_file_name')
          \/ /\ pc = "confirm"
             /\ output_file_name' = candidate
             /\ lower(typed') = <<"y">>
    /\ (/\ pc = "confirm"
        /\ caller = "verify"
        /\ prompts' = prompts + 1
        /\ (lower(typed') = <<"n">> \/ typed' = <<>>)) =>
          /\ pc' = "ask_out"
          /\ output_file_name' = output_file_name
    /\ InProcessFile => output_file_name' = output_file_name

\* C14: main calls process_file with the name of an existing output file
\* only when the last thing the user did was to answer yes to the
\* confirmation for that name; ask_output_file_name returns a name either
\* straight away, and then no file has it, or on a yes; after a no or an empty
\* answer the name is asked again; the name does not change once
\* process_file is called.
C14_OverwriteConfirmed == [](C14_Called) /\ [][C14_Step]_vars

\* After a refusal the same existing file was named again, confirmed, and
\* process_file was called.
C14_Witness ==
    /\ pc = "read"
    /\ file_exists(output_file_name)
    /\ prompts = 5
    /\ SaidYes

\* The two texts are the same when the case of the letters is ignored.
EqualsIgnoringCase(a, b) ==
    /\ Len(a) = Len(b)
    /\ \A k \in 1..Len(a) : a[k] = b[k] \/ upper_char(a[k]) = b[k] \/ a[k] = upper_char(b[k])

C15_Step ==
    (pc = "confirm" /\ prompts' = prompts + 1) =>
        /\ IF EqualsIgnoringCase(typed', yes)
           THEN pc' # "confirm" /\ result'
           ELSE IF EqualsIgnoringCase(typed', no)
                THEN pc' # "confirm" /\ ~result'
                ELSE IF typed' = <<>>
                     THEN pc' # "confirm" /\ result' = default
                     ELSE pc' = "confirm" /\ result' = result
        /\ message' = message
        /\ default' = default
        /\ EqualsIgnoringCase(yes', yes)
        /\ EqualsIgnoringCase(no', no)
        /\ long_message # <<>> =>
              /\ long_message' = long_message
              /\ yes' = yes
              /\ no' = no

\* C15: every answer that is yes, ignoring case, makes ask_confirmation
\* return True, every other answer that is no, ignoring case, False, every
\* other answer that is empty the default, and every other answer makes it
\* ask again, with the message, yes, no and default it had and the prompt it
\* showed before.
C15_AnswerProtocol == [][C15_Step]_vars

\* After two answers that are neither yes nor no, an empty answer returned
\* the default, True.
C15_Witness ==
    /\ pc = "returned"
    /\ prompts = 3
    /\ typed = <<>>
    /\ default
    /\ result

C19_Read == pc \in {"for", "scan", "ret"} => lines = readlines(file)

C19_Final ==
    pc = "done" =>
        /\ line_number = Len(lines)
        /\ out = Flatten(output_lines)
        /\ IsNewlineInsertion(out, Flatten(lines))

C19_Step ==
    /\ disk' # disk => (pc = "for" /\ line_number = Len(lines) /\ pc' = "done")
    /\ lines' # lines => (pc = "read" /\ lines' = readlines(file))

\* C19: no file changes before the for loop is done with the last line, and
\* then only the output file; lines are read once, all of them, before any
\* is taken, and while they are taken they are the lines of the input file;
\* at the end the output file holds the output elements, which are the lines
\* read with the newlines of the splits inserted, also when the output file
\* is the input file.
C19_ReadBeforeWrite == [](C19_Read /\ C19_Final) /\ [][C19_Step]_vars

\* The input file was given as the output file, and is saved with a split.
C19_Witness ==
    /\ pc = "done"
    /\ output_file_name = file_name
    /\ Len(output_lines) > Len(lines)
    /\ out # Flatten(lines)

====
